---- MODULE Spec2Model ----
(***************************************************************************)
(* PhantomOS face tracker (kernel/face_track.py): the per-frame pipeline   *)
(* of FaceTracker.run / process_frame / detect_gesture as a state machine. *)
(*                                                                         *)
(* Numbers.  Landmark coordinates are integers in units of 1/Unit of the   *)
(* normalised image.  Values the program computes by division or by the    *)
(* smoothing recurrence are exact rationals <<num, den>> in lowest terms   *)
(* (den > 0); Python's binary floating point rounds these, the model does  *)
(* not.  Distances are kept squared, so a ratio of distances is compared   *)
(* with a threshold by comparing the squares.                              *)
(***************************************************************************)
EXTENDS Integers, Sequences, FiniteSets, TLC

(***************************************************************************)
(* Bounds of the model (not program constants).                            *)
(***************************************************************************)
\* frames read in a run of the general specification
MaxFrames == 4
\* frames read in a run of the held-gesture specification
GestureFrames == 27
\* frames read in a run of the smoothing scenario
ScenarioFrames == 11
\* longest run of eye-closed frames the camera shows after the first gesture
MaxEyeRun == 4
\* longest run of mouth-open frames the camera shows after the first gesture
MaxMouthRun == 6
\* clock ticks that may pass during a run
MaxElapsed == 1
\* frames read in a run of the convergence specification
ConvergeFrames == 5
\* frames read in a run of the sustained-gesture specification
SustainedFrames == 48
\* frames read in a run of the dropped-frame specification
GapFrames == 24

(***************************************************************************)
(* Program constants.                                                      *)
(***************************************************************************)
\* landmark coordinates are in units of 1/Unit (a model scale, see above)
Unit == 10000
NOSE_TIP == 4
LEFT_EYE_OUTER == 33
LEFT_EYE_INNER == 133
RIGHT_EYE_OUTER == 362
RIGHT_EYE_INNER == 263
LEFT_EYE_TOP == 159
LEFT_EYE_BOTTOM == 145
RIGHT_EYE_TOP == 386
RIGHT_EYE_BOTTOM == 374
UPPER_LIP == 13
LOWER_LIP == 14
LEFT_MOUTH == 61
RIGHT_MOUTH == 291
CHIN == 152
FOREHEAD == 10
\* cooldown set by blink_both, blink_left, blink_right
BlinkCooldown == 15
\* cooldown set by mouth_open
MouthCooldown == 20

(***************************************************************************)
(* Exact rationals.                                                        *)
(***************************************************************************)
RECURSIVE Gcd(_, _)
Gcd(a, b) == IF b = 0 THEN a ELSE Gcd(b, a % b)

Abs(a) == IF a < 0 THEN -a ELSE a

\* n/d in lowest terms with a positive denominator
Rat(n, d) ==
    LET g == Gcd(Abs(n), Abs(d))
        s == IF d < 0 THEN -1 ELSE 1
    IN  <<s * (n \div g), s * (d \div g)>>

\* over the least common denominator, which keeps the products small
RAdd(p, q) ==
    LET g == Gcd(p[2], q[2])
    IN  Rat(p[1] * (q[2] \div g) + q[1] * (p[2] \div g), (p[2] \div g) * q[2])

RMul(p, q) ==
    LET a == Rat(p[1], q[2])
        b == Rat(q[1], p[2])
    IN  Rat(a[1] * b[1], a[2] * b[2])

ROne == <<1, 1>>

RZero == <<0, 1>>

RHalf == <<1, 2>>

ROneMinus(p) == Rat(p[2] - p[1], p[2])

RLess(p, q) == p[1] * q[2] < q[1] * p[2]


(***************************************************************************)
(* Landmark sets.  A LandmarkSet is a function from the landmark indices   *)
(* the tracker reads to points [x, y]; "no face" is the empty sequence and *)
(* a detected face the one-element sequence holding its LandmarkSet.       *)
(***************************************************************************)
LandmarkIds ==
    {NOSE_TIP, LEFT_EYE_OUTER, LEFT_EYE_INNER, RIGHT_EYE_OUTER, RIGHT_EYE_INNER,
     LEFT_EYE_TOP, LEFT_EYE_BOTTOM, RIGHT_EYE_TOP, RIGHT_EYE_BOTTOM,
     UPPER_LIP, LOWER_LIP, LEFT_MOUTH, RIGHT_MOUTH, CHIN, FOREHEAD}

Pt(px, py) == [x |-> px, y |-> py]

\* an eye or mouth aperture <<vertical, horizontal>> in units of 1/Unit
EyeOpen == <<300, 1000>>

EyeShut == <<100, 1000>>

MouthOpen == <<600, 1000>>

MouthShut == <<100, 1000>>

\* degenerate geometry: the two corners less than 0.001 apart.  The eye's
\* lids touch (ratio 0 were it computed), the mouth's lips are wide apart
EyeDegenerate == <<0, 5>>

MouthDegenerate == <<600, 5>>

\* the face whose left eye, right eye and mouth have apertures le, re, mo
\* and whose nose tip is at nose
Face(le, re, mo, nose) ==
    [i \in LandmarkIds |->
        CASE i = NOSE_TIP -> nose
          [] i = LEFT_EYE_OUTER -> Pt(3000, 4000)
          [] i = LEFT_EYE_INNER -> Pt(3000 + le[2], 4000)
          [] i = LEFT_EYE_TOP -> Pt(3500, 4000)
          [] i = LEFT_EYE_BOTTOM -> Pt(3500, 4000 + le[1])
          [] i = RIGHT_EYE_OUTER -> Pt(7000, 4000)
          [] i = RIGHT_EYE_INNER -> Pt(7000 - re[2], 4000)
          [] i = RIGHT_EYE_TOP -> Pt(6500, 4000)
          [] i = RIGHT_EYE_BOTTOM -> Pt(6500, 4000 + re[1])
          [] i = LEFT_MOUTH -> Pt(4500, 7000)
          [] i = RIGHT_MOUTH -> Pt(4500 + mo[2], 7000)
          [] i = UPPER_LIP -> Pt(5000, 6800)
          [] i = LOWER_LIP -> Pt(5000, 6800 + mo[1])
          [] i = FOREHEAD -> Pt(5000, 2000)
          [] OTHER -> Pt(5000, 9000)]

\* a captured frame as the detectors see it: the landmarker's result and
\* the Haar cascade's list of face boxes <<x, y, w, h>> in pixels
Frame(lms, boxes) == [landmarks |-> lms, faces |-> boxes]

NoFace == Frame(<<>>, <<>>)

\* the 8 face conditions the gesture classifier distinguishes, nose at p
Faces(p) ==
    {Frame(<<Face(le, re, mo, p)>>, <<>>) :
        le \in {EyeOpen, EyeShut}, re \in {EyeOpen, EyeShut},
        mo \in {MouthOpen, MouthShut}}

\* a face with open eyes and shut mouth, nose at p
Neutral(p) == Frame(<<Face(EyeOpen, EyeOpen, MouthShut, p)>>, <<>>)

(***************************************************************************)
(* State.                                                                  *)
(***************************************************************************)
VARIABLES
    pc,                       \* position in FaceTracker.run
    cap,                      \* the camera: "none", "open", "released"
    landmarker,               \* HAVE_MEDIAPIPE and self.landmarker
    show_preview,
    mode,
    smoothing_factor,
    left_eye_closed_frames,
    right_eye_closed_frames,
    mouth_open_frames,
    last_gesture,
    gesture_cooldown,
    smooth_x,
    smooth_y,
    frame_count,
    timestamp_ms,
    elapsed,                  \* time.time() - start_time at the last reading, in ticks
    frame,                    \* the frame process_frame read last
    result,                   \* process_frame's return value: <<>> is None
    out,                      \* stdout: the lines written, oldest first
    exit_status,              \* the process's exit status: <<>> while it runs
    hist                      \* history variables (no effect on the program)

gesture_vars ==
    <<left_eye_closed_frames, right_eye_closed_frames, mouth_open_frames,
      last_gesture, gesture_cooldown>>

config_vars == <<landmarker, show_preview, mode, smoothing_factor>>

vars ==
    <<pc, cap, config_vars, gesture_vars, smooth_x, smooth_y, frame_count,
      timestamp_ms, elapsed, frame, result, out, exit_status, hist>>

(***************************************************************************)
(* Aspect ratios.  Both operators return the SQUARE of the ratio the code  *)
(* returns (the code takes square roots of the two squared distances).     *)
(***************************************************************************)
DistSq(a, b) == (a.x - b.x) * (a.x - b.x) + (a.y - b.y) * (a.y - b.y)

\* Mutant of Degenerate: no guard, the ratio is always computed.
DegenerateNever(h2) == FALSE

\* h_dist < 0.001, on the squared distance in units of 1/Unit
Degenerate(h2) == h2 < (Unit \div 1000) * (Unit \div 1000)

calculate_eye_aspect_ratio(landmarks, eye_indices) ==
    IF landmarks = <<>> THEN ROne
    ELSE LET lm == landmarks[1]
             v2 == DistSq(lm[eye_indices[1]], lm[eye_indices[2]])
             h2 == DistSq(lm[eye_indices[3]], lm[eye_indices[4]])
         IN  IF Degenerate(h2) THEN ROne ELSE Rat(v2, h2)

calculate_mouth_aspect_ratio(landmarks) ==
    IF landmarks = <<>> THEN RZero
    ELSE LET lm == landmarks[1]
             v2 == DistSq(lm[UPPER_LIP], lm[LOWER_LIP])
             h2 == DistSq(lm[LEFT_MOUTH], lm[RIGHT_MOUTH])
         IN  IF Degenerate(h2) THEN RZero ELSE Rat(v2, h2)

\* left_ear < 0.15, on the squared ratio: 0.15^2 = 9/400
EyeClosed(ear2) == RLess(ear2, <<9, 400>>)

\* mar > 0.4, on the squared ratio: 0.4^2 = 4/25
MouthIsOpen(mar2) == RLess(<<4, 25>>, mar2)

(***************************************************************************)
(* detect_gesture: the label it returns and the GestureState it leaves.    *)
(***************************************************************************)
\* the counter after "if closed: counter += 1 else: counter = 0"
RunLength(counter, holds) == IF holds THEN counter + 1 ELSE 0

\* Mutants of Classify: blink_both one frame late; a wink that does not look
\* at the other eye; a wink one frame early; mouth_open with the blink
\* cooldown; blinks with a cooldown one frame short.
ClassifyBlinkLate(l, r, m, cooldown) ==
    IF cooldown > 0 THEN <<"none", cooldown - 1>>
    ELSE IF l > 3 /\ r > 3 THEN <<"blink_both", BlinkCooldown>>
    ELSE IF l > 3 /\ r = 0 THEN <<"blink_left", BlinkCooldown>>
    ELSE IF r > 3 /\ l = 0 THEN <<"blink_right", BlinkCooldown>>
    ELSE IF m > 5 THEN <<"mouth_open", MouthCooldown>>
    ELSE <<"none", cooldown>>

ClassifyWinkIgnoresOther(l, r, m, cooldown) ==
    IF cooldown > 0 THEN <<"none", cooldown - 1>>
    ELSE IF l > 2 /\ r > 2 THEN <<"blink_both", BlinkCooldown>>
    ELSE IF l > 3 THEN <<"blink_left", BlinkCooldown>>
    ELSE IF r > 3 THEN <<"blink_right", BlinkCooldown>>
    ELSE IF m > 5 THEN <<"mouth_open", MouthCooldown>>
    ELSE <<"none", cooldown>>

ClassifyWinkEarly(l, r, m, cooldown) ==
    IF cooldown > 0 THEN <<"none", cooldown - 1>>
    ELSE IF l > 2 /\ r > 2 THEN <<"blink_both", BlinkCooldown>>
    ELSE IF l > 2 /\ r = 0 THEN <<"blink_left", BlinkCooldown>>
    ELSE IF r > 2 /\ l = 0 THEN <<"blink_right", BlinkCooldown>>
    ELSE IF m > 5 THEN <<"mouth_open", MouthCooldown>>
    ELSE <<"none", cooldown>>

ClassifyMouthShortCooldown(l, r, m, cooldown) ==
    IF cooldown > 0 THEN <<"none", cooldown - 1>>
    ELSE IF l > 2 /\ r > 2 THEN <<"blink_both", BlinkCooldown>>
    ELSE IF l > 3 /\ r = 0 THEN <<"blink_left", BlinkCooldown>>
    ELSE IF r > 3 /\ l = 0 THEN <<"blink_right", BlinkCooldown>>
    ELSE IF m > 5 THEN <<"mouth_open", BlinkCooldown>>
    ELSE <<"none", cooldown>>

ClassifyShortCooldown(l, r, m, cooldown) ==
    IF cooldown > 0 THEN <<"none", cooldown - 1>>
    ELSE IF l > 2 /\ r > 2 THEN <<"blink_both", BlinkCooldown - 1>>
    ELSE IF l > 3 /\ r = 0 THEN <<"blink_left", BlinkCooldown - 1>>
    ELSE IF r > 3 /\ l = 0 THEN <<"blink_right", BlinkCooldown - 1>>
    ELSE IF m > 5 THEN <<"mouth_open", MouthCooldown>>
    ELSE <<"none", cooldown>>

\* More mutants of Classify: mouth_open with a cooldown one frame long;
\* blinks with a cooldown one frame long; a cooldown that lets blink_both
\* through; mouth_open ahead of the blinks in the priority list.
ClassifyMouthLongCooldown(l, r, m, cooldown) ==
    IF cooldown > 0 THEN <<"none", cooldown - 1>>
    ELSE IF l > 2 /\ r > 2 THEN <<"blink_both", BlinkCooldown>>
    ELSE IF l > 3 /\ r = 0 THEN <<"blink_left", BlinkCooldown>>
    ELSE IF r > 3 /\ l = 0 THEN <<"blink_right", BlinkCooldown>>
    ELSE IF m > 5 THEN <<"mouth_open", MouthCooldown + 1>>
    ELSE <<"none", cooldown>>

ClassifyLongCooldown(l, r, m, cooldown) ==
    IF cooldown > 0 THEN <<"none", cooldown - 1>>
    ELSE IF l > 2 /\ r > 2 THEN <<"blink_both", BlinkCooldown + 1>>
    ELSE IF l > 3 /\ r = 0 THEN <<"blink_left", BlinkCooldown + 1>>
    ELSE IF r > 3 /\ l = 0 THEN <<"blink_right", BlinkCooldown + 1>>
    ELSE IF m > 5 THEN <<"mouth_open", MouthCooldown>>
    ELSE <<"none", cooldown>>

ClassifyCooldownLeaky(l, r, m, cooldown) ==
    IF cooldown > 0 /\ ~(l > 2 /\ r > 2) THEN <<"none", cooldown - 1>>
    ELSE IF l > 2 /\ r > 2 THEN <<"blink_both", BlinkCooldown>>
    ELSE IF l > 3 /\ r = 0 THEN <<"blink_left", BlinkCooldown>>
    ELSE IF r > 3 /\ l = 0 THEN <<"blink_right", BlinkCooldown>>
    ELSE IF m > 5 THEN <<"mouth_open", MouthCooldown>>
    ELSE <<"none", cooldown>>

ClassifyMouthFirst(l, r, m, cooldown) ==
    IF cooldown > 0 THEN <<"none", cooldown - 1>>
    ELSE IF m > 5 THEN <<"mouth_open", MouthCooldown>>
    ELSE IF l > 2 /\ r > 2 THEN <<"blink_both", BlinkCooldown>>
    ELSE IF l > 3 /\ r = 0 THEN <<"blink_left", BlinkCooldown>>
    ELSE IF r > 3 /\ l = 0 THEN <<"blink_right", BlinkCooldown>>
    ELSE <<"none", cooldown>>

\* the cooldown branch and the priority list, on the updated counters:
\* <<label, new cooldown>>
Classify(l, r, m, cooldown) ==
    IF cooldown > 0 THEN <<"none", cooldown - 1>>
    ELSE IF l > 2 /\ r > 2 THEN <<"blink_both", BlinkCooldown>>
    ELSE IF l > 3 /\ r = 0 THEN <<"blink_left", BlinkCooldown>>
    ELSE IF r > 3 /\ l = 0 THEN <<"blink_right", BlinkCooldown>>
    ELSE IF m > 5 THEN <<"mouth_open", MouthCooldown>>
    ELSE <<"none", cooldown>>

LeftClosed(landmarks) ==
    EyeClosed(calculate_eye_aspect_ratio(landmarks,
        <<LEFT_EYE_TOP, LEFT_EYE_BOTTOM, LEFT_EYE_INNER, LEFT_EYE_OUTER>>))

RightClosed(landmarks) ==
    EyeClosed(calculate_eye_aspect_ratio(landmarks,
        <<RIGHT_EYE_TOP, RIGHT_EYE_BOTTOM, RIGHT_EYE_INNER, RIGHT_EYE_OUTER>>))

MouthOpened(landmarks) == MouthIsOpen(calculate_mouth_aspect_ratio(landmarks))

\* Mutant of detect_gesture: a frame without landmarks counts as eyes open
\* and mouth shut, and runs the cooldown.
detect_gesture_counts_no_face(landmarks) ==
    LET l == RunLength(left_eye_closed_frames, LeftClosed(landmarks))
        r == RunLength(right_eye_closed_frames, RightClosed(landmarks))
        m == RunLength(mouth_open_frames, MouthOpened(landmarks))
        c == Classify(l, r, m, gesture_cooldown)
    IN  [gesture |-> c[1], left |-> l, right |-> r, mouth |-> m,
         cooldown |-> c[2]]

\* Mutant of detect_gesture: a frame without landmarks ends every run.
detect_gesture_gap_resets(landmarks) ==
    IF landmarks = <<>>
    THEN [gesture |-> "none", left |-> 0, right |-> 0, mouth |-> 0,
          cooldown |-> gesture_cooldown]
    ELSE LET l == RunLength(left_eye_closed_frames, LeftClosed(landmarks))
             r == RunLength(right_eye_closed_frames, RightClosed(landmarks))
             m == RunLength(mouth_open_frames, MouthOpened(landmarks))
             c == Classify(l, r, m, gesture_cooldown)
         IN  [gesture |-> c[1], left |-> l, right |-> r, mouth |-> m,
              cooldown |-> c[2]]

\* Mutant of detect_gesture: the cooldown check comes first and skips the
\* update of the counters.
detect_gesture_cooldown_first(landmarks) ==
    IF landmarks = <<>>
    THEN [gesture |-> "none",
          left |-> left_eye_closed_frames,
          right |-> right_eye_closed_frames,
          mouth |-> mouth_open_frames,
          cooldown |-> gesture_cooldown]
    ELSE IF gesture_cooldown > 0
    THEN [gesture |-> "none",
          left |-> left_eye_closed_frames,
          right |-> right_eye_closed_frames,
          mouth |-> mouth_open_frames,
          cooldown |-> gesture_cooldown - 1]
    ELSE LET l == RunLength(left_eye_closed_frames, LeftClosed(landmarks))
             r == RunLength(right_eye_closed_frames, RightClosed(landmarks))
             m == RunLength(mouth_open_frames, MouthOpened(landmarks))
             c == Classify(l, r, m, gesture_cooldown)
         IN  [gesture |-> c[1], left |-> l, right |-> r, mouth |-> m,
              cooldown |-> c[2]]

detect_gesture(landmarks) ==
    IF landmarks = <<>>
    THEN [gesture |-> "none",
          left |-> left_eye_closed_frames,
          right |-> right_eye_closed_frames,
          mouth |-> mouth_open_frames,
          cooldown |-> gesture_cooldown]
    ELSE LET l == RunLength(left_eye_closed_frames, LeftClosed(landmarks))
             r == RunLength(right_eye_closed_frames, RightClosed(landmarks))
             m == RunLength(mouth_open_frames, MouthOpened(landmarks))
             c == Classify(l, r, m, gesture_cooldown)
         IN  [gesture |-> c[1], left |-> l, right |-> r, mouth |-> m,
              cooldown |-> c[2]]

(***************************************************************************)
(* get_tracking_point: <<>> is (None, None), else <<x, y>> as rationals.   *)
(***************************************************************************)
Coord(v) == Rat(v, Unit)

Mean(a, b) == RMul(RAdd(a, b), RHalf)

\* Mutant of get_tracking_point: mouth mode takes y from the mouth corners.
get_tracking_point_mouth_corners(landmarks) ==
    IF landmarks = <<>> THEN <<>>
    ELSE LET lm == landmarks[1]
             X(i) == Coord(lm[i].x)
             Y(i) == Coord(lm[i].y)
         IN  CASE mode = "nose" -> <<X(NOSE_TIP), Y(NOSE_TIP)>>
               [] mode = "head" ->
                    <<Mean(X(FOREHEAD), X(CHIN)), Mean(Y(FOREHEAD), Y(CHIN))>>
               [] mode = "eyes" ->
                    <<Mean(Mean(X(LEFT_EYE_INNER), X(LEFT_EYE_OUTER)),
                           Mean(X(RIGHT_EYE_INNER), X(RIGHT_EYE_OUTER))),
                      Mean(Mean(Y(LEFT_EYE_INNER), Y(LEFT_EYE_OUTER)),
                           Mean(Y(RIGHT_EYE_INNER), Y(RIGHT_EYE_OUTER)))>>
               [] mode = "mouth" ->
                    <<Mean(X(LEFT_MOUTH), X(RIGHT_MOUTH)),
                      Mean(Y(LEFT_MOUTH), Y(RIGHT_MOUTH))>>
               [] OTHER -> <<RHalf, RHalf>>

get_tracking_point(landmarks) ==
    IF landmarks = <<>> THEN <<>>
    ELSE LET lm == landmarks[1]
             X(i) == Coord(lm[i].x)
             Y(i) == Coord(lm[i].y)
         IN  CASE mode = "nose" -> <<X(NOSE_TIP), Y(NOSE_TIP)>>
               [] mode = "head" ->
                    <<Mean(X(FOREHEAD), X(CHIN)), Mean(Y(FOREHEAD), Y(CHIN))>>
               [] mode = "eyes" ->
                    <<Mean(Mean(X(LEFT_EYE_INNER), X(LEFT_EYE_OUTER)),
                           Mean(X(RIGHT_EYE_INNER), X(RIGHT_EYE_OUTER))),
                      Mean(Mean(Y(LEFT_EYE_INNER), Y(LEFT_EYE_OUTER)),
                           Mean(Y(RIGHT_EYE_INNER), Y(RIGHT_EYE_OUTER)))>>
               [] mode = "mouth" ->
                    <<Mean(X(LEFT_MOUTH), X(RIGHT_MOUTH)),
                      Mean(Y(UPPER_LIP), Y(LOWER_LIP))>>
               [] OTHER -> <<RHalf, RHalf>>

\* Mutants of Smooth: the raw point, unsmoothed; the two weights exchanged;
\* the raw point at full weight.
SmoothRawOnly(smooth, raw) == raw

SmoothSwapped(smooth, raw) ==
    RAdd(RMul(smooth, ROneMinus(smoothing_factor)), RMul(raw, smoothing_factor))

SmoothUnweighted(smooth, raw) == RAdd(RMul(smooth, smoothing_factor), raw)

\* smooth * smoothing_factor + raw * (1 - smoothing_factor)
Smooth(smooth, raw) ==
    RAdd(RMul(smooth, smoothing_factor), RMul(raw, ROneMinus(smoothing_factor)))

\* Mutant of NewSmooth: a frame without a raw point resets to the centre.
NewSmoothResets(smooth, detected, raw) ==
    IF detected THEN Smooth(smooth, raw) ELSE RHalf

\* the smoothed coordinate after a frame: updated when a raw point exists
NewSmooth(smooth, detected, raw) ==
    IF detected THEN Smooth(smooth, raw) ELSE smooth

\* frame size the camera is set to, and the centre of a Haar face box
FrameWidth == 640

FrameHeight == 480

\* Mutant of BoxCentre: the top left corner of the box.
BoxCorner(box) == <<Rat(box[1], FrameWidth), Rat(box[2], FrameHeight)>>

BoxCentre(box) ==
    <<Rat(2 * box[1] + box[3], 2 * FrameWidth),
      Rat(2 * box[2] + box[4], 2 * FrameHeight)>>

(***************************************************************************)
(* History variables.  hist records, for the statement of properties only: *)
(*   faces    face-detected frames so far                                  *)
(*   emitted  the last label other than "none" the classifier returned     *)
(*   since    frames classified since that label (0 while there is none)   *)
(*   run_right_closed  the right eye was classified closed on some frame   *)
(*            of the current run of left-eye-closed frames                 *)
(*   run_left_closed   the same with left and right exchanged              *)
(*   raw      the raw tracking point of the last face-detected frame       *)
(*   held     face-detected frames in the current run of frames whose raw  *)
(*            tracking point is raw                                        *)
(*   base     the smoothed point before the first frame of that run        *)
(*   ended    why the run ended ("no" while it has not)                    *)
(*   end_frames, end_lines  frame_count and Len(out) when it ended         *)
(***************************************************************************)
HistInit ==
    [faces |-> 0, emitted |-> "none", since |-> 0, run_right_closed |-> FALSE,
     run_left_closed |-> FALSE, raw |-> <<>>, held |-> 0,
     base |-> <<RHalf, RHalf>>, ended |-> "no", end_frames |-> 0,
     end_lines |-> 0]

\* the history when the run ends for the reason why
Ended(why) ==
    [hist EXCEPT !.ended = why, !.end_frames = frame_count,
                 !.end_lines = Len(out)]

HistNext(detected, classified, lms, label, point, quit) ==
    [faces |-> IF detected THEN hist.faces + 1 ELSE hist.faces,
     emitted |-> IF label # "none" THEN label ELSE hist.emitted,
     since |-> IF label # "none" \/ hist.emitted = "none" THEN 0
               ELSE IF classified THEN hist.since + 1 ELSE hist.since,
     run_right_closed |->
        IF ~classified THEN hist.run_right_closed
        ELSE IF ~LeftClosed(lms) THEN FALSE
        ELSE IF left_eye_closed_frames = 0 THEN RightClosed(lms)
        ELSE hist.run_right_closed \/ RightClosed(lms),
     run_left_closed |->
        IF ~classified THEN hist.run_left_closed
        ELSE IF ~RightClosed(lms) THEN FALSE
        ELSE IF right_eye_closed_frames = 0 THEN LeftClosed(lms)
        ELSE hist.run_left_closed \/ LeftClosed(lms),
     raw |-> IF detected THEN point ELSE hist.raw,
     held |-> IF ~detected THEN hist.held
              ELSE IF point # hist.raw THEN 1 ELSE hist.held + 1,
     base |-> IF detected /\ point # hist.raw THEN <<smooth_x, smooth_y>>
              ELSE hist.base,
     ended |-> IF quit THEN "quit" ELSE hist.ended,
     end_frames |-> IF quit THEN frame_count + 1 ELSE hist.end_frames,
     end_lines |-> IF quit THEN Len(out) ELSE hist.end_lines]

(***************************************************************************)
(* FaceTracker.__init__ and main: the state a run starts in.  cfg gives    *)
(* the configurations a specification considers.                           *)
(***************************************************************************)
InitWith(cfg) ==
    /\ pc = "start"
    /\ cap = "none"
    /\ landmarker \in cfg.landmarker
    /\ show_preview \in cfg.show_preview
    /\ mode \in cfg.mode
    /\ smoothing_factor \in cfg.smoothing_factor
    /\ left_eye_closed_frames = 0
    /\ right_eye_closed_frames = 0
    /\ mouth_open_frames = 0
    /\ last_gesture = "none"
    /\ gesture_cooldown = 0
    /\ smooth_x = RHalf
    /\ smooth_y = RHalf
    /\ frame_count = 0
    /\ timestamp_ms = 0
    /\ elapsed = 0
    /\ frame = NoFace
    /\ result = <<>>
    /\ out = <<>>
    /\ exit_status = <<>>
    /\ hist = HistInit

Line(kind) == [kind |-> kind, frame |-> frame_count]

(***************************************************************************)
(* FaceTracker.start and the head of run.                                  *)
(***************************************************************************)
StartOk ==
    /\ pc = "start"
    /\ cap' = "open"
    /\ out' = Append(out, Line("started"))
    /\ pc' = "loop"
    /\ UNCHANGED <<config_vars, gesture_vars, smooth_x, smooth_y, frame_count,
                   timestamp_ms, elapsed, frame, result, exit_status, hist>>

\* start() prints its error and returns False; run() prints another and returns
StartFail ==
    /\ pc = "start"
    /\ out' = out \o <<Line("error"), Line("error")>>
    /\ pc' = "exit"
    /\ exit_status' = <<0>>
    /\ hist' = Ended("setup_failure")
    /\ UNCHANGED <<cap, config_vars, gesture_vars, smooth_x, smooth_y,
                   frame_count, timestamp_ms, elapsed, frame, result>>

\* KeyboardInterrupt during start() or before the try block is entered: no
\* handler and no finally clause is in force, the exception leaves run() and
\* main() and the interpreter ends with the status of an interrupted process;
\* the camera may or may not have been opened by then
InterruptStart ==
    /\ pc = "start"
    /\ cap' \in {"none", "open"}
    /\ pc' = "exit"
    /\ exit_status' = <<130>>
    /\ hist' = Ended("setup_interrupt")
    /\ UNCHANGED <<config_vars, gesture_vars, smooth_x, smooth_y, frame_count,
                   timestamp_ms, elapsed, frame, result, out>>

(***************************************************************************)
(* process_frame.  lim bounds the run: the frames the camera may deliver   *)
(* (feed), the clock ticks a frame may take (ticks) and the number of      *)
(* frames.                                                                 *)
(***************************************************************************)
\* the record process_frame builds
Record(detected, label, fps) ==
    [x |-> IF detected THEN smooth_x' ELSE RHalf,
     y |-> IF detected THEN smooth_y' ELSE RHalf,
     gesture |-> label,
     face_detected |-> detected,
     fps |-> fps]

\* what "print(json.dumps(result))" follows: the record is returned, or the
\* quit key was pressed in the preview window and None is returned
Returned(rec, quit) == IF quit THEN <<>> ELSE <<rec>>

ProcessFrame(lim) ==
    /\ pc = "loop"
    /\ cap = "open"
    /\ frame_count < lim.frames
    /\ \E f \in lim.feed, d \in lim.ticks,
          quit \in IF show_preview THEN BOOLEAN ELSE {FALSE} :
        LET lms == IF landmarker THEN f.landmarks ELSE <<>>
            point == IF landmarker THEN get_tracking_point(lms)
                     ELSE IF f.faces # <<>> THEN BoxCentre(f.faces[1])
                     ELSE <<>>
            detected == point # <<>>
            classified == landmarker /\ detected
            g == IF classified THEN detect_gesture(lms) ELSE detect_gesture(<<>>)
        IN  /\ elapsed + d <= MaxElapsed
            /\ frame' = f
            /\ frame_count' = frame_count + 1
            /\ timestamp_ms' = timestamp_ms + 33
            /\ smooth_x' = NewSmooth(smooth_x, detected, point[1])
            /\ smooth_y' = NewSmooth(smooth_y, detected, point[2])
            /\ left_eye_closed_frames' = g.left
            /\ right_eye_closed_frames' = g.right
            /\ mouth_open_frames' = g.mouth
            /\ gesture_cooldown' = g.cooldown
            /\ elapsed' = elapsed + d
            /\ result' = Returned(Record(detected, g.gesture,
                            IF elapsed' > 0 THEN Rat(frame_count', elapsed')
                            ELSE RZero), quit)
            /\ pc' = IF quit THEN "finally" ELSE "print"
            /\ hist' = HistNext(detected, classified, lms, g.gesture, point,
                                quit)
    /\ UNCHANGED <<cap, config_vars, last_gesture, out, exit_status>>

\* Mutant of ReadFail: the failed read is counted as a frame.
ReadFailCounts ==
    /\ pc = "loop"
    /\ result' = <<>>
    /\ pc' = "finally"
    /\ frame_count' = frame_count + 1
    /\ hist' = Ended("read_failure")
    /\ UNCHANGED <<cap, config_vars, gesture_vars, smooth_x, smooth_y,
                   timestamp_ms, elapsed, frame, out, exit_status>>

\* Mutant of ReadFail: the failed read is tried again.
ReadFailRetries ==
    /\ pc = "loop"
    /\ result' = <<>>
    /\ pc' = "loop"
    /\ hist' = Ended("read_failure")
    /\ UNCHANGED <<cap, config_vars, gesture_vars, smooth_x, smooth_y,
                   frame_count, timestamp_ms, elapsed, frame, out, exit_status>>

\* cap.read() returns no frame: process_frame returns None, the loop breaks
ReadFail ==
    /\ pc = "loop"
    /\ result' = <<>>
    /\ pc' = "finally"
    /\ hist' = Ended("read_failure")
    /\ UNCHANGED <<cap, config_vars, gesture_vars, smooth_x, smooth_y,
                   frame_count, timestamp_ms, elapsed, frame, out, exit_status>>

\* Mutant of PrintRecord: the record is not written.
PrintRecordLost ==
    /\ pc = "print"
    /\ pc' = "loop"
    /\ UNCHANGED <<cap, config_vars, gesture_vars, smooth_x, smooth_y,
                   frame_count, timestamp_ms, elapsed, frame, result, out,
                   exit_status, hist>>

\* print(json.dumps(result), flush=True)
PrintRecord ==
    /\ pc = "print"
    /\ out' = Append(out, Line("record"))
    /\ pc' = "loop"
    /\ UNCHANGED <<cap, config_vars, gesture_vars, smooth_x, smooth_y,
                   frame_count, timestamp_ms, elapsed, frame, result,
                   exit_status, hist>>

\* KeyboardInterrupt inside the try block, between two statements of the loop
Interrupt ==
    /\ pc \in {"loop", "print"}
    /\ pc' = "finally"
    /\ hist' = Ended("interrupt")
    /\ UNCHANGED <<cap, config_vars, gesture_vars, smooth_x, smooth_y,
                   frame_count, timestamp_ms, elapsed, frame, result, out,
                   exit_status>>

\* an exception other than KeyboardInterrupt raised by process_frame after
\* the frame was read and counted (by the detector, say): no value is
\* returned, no except clause matches, the finally clause runs and the
\* exception then leaves run()
ProcessFrameRaises ==
    /\ pc = "loop"
    /\ cap = "open"
    /\ frame_count' = frame_count + 1
    /\ timestamp_ms' = timestamp_ms + 33
    /\ result' = <<>>
    /\ pc' = "raised"
    /\ hist' = [Ended("exception") EXCEPT !.end_frames = frame_count + 1]
    /\ UNCHANGED <<cap, config_vars, gesture_vars, smooth_x, smooth_y, elapsed,
                   frame, out, exit_status>>

\* Mutant of Stop: the camera is not released.
StopKeepsCamera ==
    /\ pc \in {"finally", "raised"}
    /\ landmarker' = FALSE
    /\ pc' = IF pc = "finally" THEN "stopped" ELSE "stopped_raised"
    /\ UNCHANGED <<cap, show_preview, mode, smoothing_factor, gesture_vars,
                   smooth_x, smooth_y, frame_count, timestamp_ms, elapsed, frame,
                   result, out, exit_status, hist>>

\* finally: self.stop(), with or without an exception in flight
Stop ==
    /\ pc \in {"finally", "raised"}
    /\ cap' = "released"
    /\ landmarker' = FALSE
    /\ pc' = IF pc = "finally" THEN "stopped" ELSE "stopped_raised"
    /\ UNCHANGED <<show_preview, mode, smoothing_factor, gesture_vars, smooth_x,
                   smooth_y, frame_count, timestamp_ms, elapsed, frame, result,
                   out, exit_status, hist>>

\* finally: print(json.dumps({"status": "stopped"})); an exception in flight
\* then ends the process with status 1
PrintStopped ==
    /\ pc \in {"stopped", "stopped_raised"}
    /\ out' = Append(out, Line("stopped"))
    /\ pc' = "exit"
    /\ exit_status' = IF pc = "stopped" THEN <<0>> ELSE <<1>>
    /\ UNCHANGED <<cap, config_vars, gesture_vars, smooth_x, smooth_y,
                   frame_count, timestamp_ms, elapsed, frame, result, hist>>

\* run() around process_frame, every exit path included
Lifecycle ==
    \/ StartOk
    \/ StartFail
    \/ InterruptStart
    \/ ReadFail
    \/ ProcessFrameRaises
    \/ PrintRecord
    \/ Interrupt
    \/ Stop
    \/ PrintStopped

\* run() around process_frame in a run that is neither interrupted nor ended
Running ==
    \/ StartOk
    \/ PrintRecord

(***************************************************************************)
(* Specifications.                                                         *)
(***************************************************************************)
\* two nose positions
P1 == Pt(8000, 2000)

P2 == Pt(2000, 6000)

\* the general specification: short runs, every kind of frame, both nose
\* positions, preview on or off, a clock that may or may not advance
Config ==
    [landmarker |-> {TRUE}, show_preview |-> BOOLEAN, mode |-> {"nose"},
     smoothing_factor |-> {RHalf, <<3, 10>>}]

Limits ==
    [feed |-> {NoFace, Neutral(P2)} \cup Faces(P1), ticks |-> {0, 1},
     frames |-> MaxFrames]

Init == InitWith(Config)

Next == ProcessFrame(Limits) \/ Lifecycle

Spec == Init /\ [][Next]_vars

\* the image centre: a nose held there leaves the smoothed point at (1/2, 1/2)
Centre == Pt(5000, 5000)

\* the 8 face conditions with the nose at the image centre
CentreFaces == Faces(Centre)

GestureConfig ==
    [landmarker |-> {TRUE}, show_preview |-> {FALSE}, mode |-> {"nose"},
     smoothing_factor |-> {<<3, 10>>}]

\* frame f keeps every run of closed-eye frames within MaxEyeRun and every
\* run of open-mouth frames within MaxMouthRun, runs that have lasted since
\* the first frame of the run excepted (they may last as long as the run)
RunsWithin(f) ==
    LET l == RunLength(left_eye_closed_frames, LeftClosed(f.landmarks))
        r == RunLength(right_eye_closed_frames, RightClosed(f.landmarks))
        m == RunLength(mouth_open_frames, MouthOpened(f.landmarks))
    IN  /\ l <= MaxEyeRun \/ l = frame_count + 1
        /\ r <= MaxEyeRun \/ r = frame_count + 1
        /\ m <= MaxMouthRun \/ m = frame_count + 1

InitGesture == InitWith(GestureConfig)

\* the held-gesture specification: long runs, the face at the image centre
\* on every frame, the clock not advancing.  From the fresh state the camera
\* shows one face condition on every frame until the classifier returns its
\* first label other than "none", and any face condition on the frames
\* after it
HeldLimits ==
    [feed |-> IF frame_count = 0 THEN CentreFaces
              ELSE IF hist.emitted = "none" THEN {frame}
              ELSE {f \in CentreFaces : RunsWithin(f)},
     ticks |-> {0}, frames |-> GestureFrames]

NextHeld == ProcessFrame(HeldLimits) \/ Running

SpecHeld == InitGesture /\ [][NextHeld]_vars

\* the smoothing scenario: smoothing factor 1/2, frames without a face and
\* frames with the nose at (0.8, 0.2)
ScenarioConfig ==
    [landmarker |-> {TRUE}, show_preview |-> {FALSE}, mode |-> {"nose"},
     smoothing_factor |-> {RHalf}]

ScenarioLimits ==
    [feed |-> {NoFace, Neutral(P1)}, ticks |-> {0, 1},
     frames |-> ScenarioFrames]

InitScenario == InitWith(ScenarioConfig)

NextScenario == ProcessFrame(ScenarioLimits) \/ Running

SpecScenario == InitScenario /\ [][NextScenario]_vars

\* a corner of the image
Corner == Pt(0, Unit)

\* the convergence specification: smoothing factors 0, 3/10, 1/2 and 9/10,
\* frames without a face and frames with the nose at (0.8, 0.2) or at the
\* corner (0, 1), in any order
ConvergeConfig ==
    [landmarker |-> {TRUE}, show_preview |-> {FALSE}, mode |-> {"nose"},
     smoothing_factor |-> {RZero, <<3, 10>>, RHalf, <<9, 10>>}]

ConvergeLimits ==
    [feed |-> {NoFace, Neutral(P1), Neutral(Corner)}, ticks |-> {0},
     frames |-> ConvergeFrames]

InitConverge == InitWith(ConvergeConfig)

NextConverge == ProcessFrame(ConvergeLimits) \/ Running

SpecConverge == InitConverge /\ [][NextConverge]_vars

\* a face with the left eye shut, the mouth open and the nose at P1
Grimace == Frame(<<Face(EyeShut, EyeOpen, MouthOpen, P1)>>, <<>>)

\* the tracking-mode specification: each of the four modes, frames without
\* a face and frames with one of two faces
ModesConfig ==
    [landmarker |-> {TRUE}, show_preview |-> {FALSE},
     mode |-> {"nose", "head", "eyes", "mouth"},
     smoothing_factor |-> {<<3, 10>>}]

ModesLimits ==
    [feed |-> {NoFace, Neutral(P2), Grimace}, ticks |-> {0},
     frames |-> MaxFrames]

InitModes == InitWith(ModesConfig)

NextModes == ProcessFrame(ModesLimits) \/ Running

SpecModes == InitModes /\ [][NextModes]_vars

\* the degenerate-geometry specification: the face at the image centre with
\* both eyes shut and the mouth open, and the same face with the left eye,
\* the right eye or the mouth degenerate
DegenerateFeed ==
    {Frame(<<Face(le, re, mo, Centre)>>, <<>>) :
        le \in {EyeShut, EyeDegenerate}, re \in {EyeShut, EyeDegenerate},
        mo \in {MouthOpen, MouthDegenerate}}

DegenerateLimits ==
    [feed |-> DegenerateFeed, ticks |-> {0}, frames |-> MaxFrames]

NextDegenerate == ProcessFrame(DegenerateLimits) \/ Running

SpecDegenerate == InitGesture /\ [][NextDegenerate]_vars

\* the sustained-gesture specification: one face condition, at the image
\* centre, on every frame of a long run
SustainedLimits ==
    [feed |-> IF frame_count = 0 THEN CentreFaces ELSE {frame},
     ticks |-> {0}, frames |-> SustainedFrames]

NextSustained == ProcessFrame(SustainedLimits) \/ Running

SpecSustained == InitGesture /\ [][NextSustained]_vars

\* a face at the image centre with both eyes shut and the mouth shut
BothShut == Frame(<<Face(EyeShut, EyeShut, MouthShut, Centre)>>, <<>>)

\* the dropped-frame specification: frames with both eyes shut and frames
\* without a face, in any order
GapLimits ==
    [feed |-> {NoFace, BothShut}, ticks |-> {0}, frames |-> GapFrames]

NextGaps == ProcessFrame(GapLimits) \/ Running

SpecGaps == InitGesture /\ [][NextGaps]_vars

\* two face boxes <<x, y, w, h>>: one about the image centre, one in the
\* top left corner
BoxMiddle == <<160, 120, 320, 240>>

BoxTopLeft == <<0, 0, 128, 96>>

\* the fallback specification: no landmarker, the Haar cascade finds a box
\* or none in frames that show a face with both eyes shut, or no face
FallbackConfig ==
    [landmarker |-> {FALSE}, show_preview |-> {FALSE}, mode |-> {"nose"},
     smoothing_factor |-> {<<3, 10>>}]

FallbackLimits ==
    [feed |-> {NoFace, Frame(BothShut.landmarks, <<>>),
               Frame(BothShut.landmarks, <<BoxMiddle>>),
               Frame(BothShut.landmarks, <<BoxTopLeft>>)},
     ticks |-> {0}, frames |-> MaxFrames]

InitFallback == InitWith(FallbackConfig)

NextFallback == ProcessFrame(FallbackLimits) \/ Running

SpecFallback == InitFallback /\ [][NextFallback]_vars

(***************************************************************************)
(* Properties.                                                             *)
(***************************************************************************)
\* a step of process_frame that read a frame
FrameStep == frame_count' = frame_count + 1

\* the detector in use found no face in frame f
Undetected(f) == IF landmarker THEN f.landmarks = <<>> ELSE f.faces = <<>>

IsRecord(line) == line.kind = "record"

\* the TrackingRecords written so far
Records == SelectSeq(out, IsRecord)

\* both eyes were classified closed on every frame read so far
BothClosedSoFar ==
    /\ left_eye_closed_frames = frame_count
    /\ right_eye_closed_frames = frame_count

\* C1: from the fresh state, with both eyes closed on every face-detected
\* frame, detect_gesture returns none on frames 1 and 2, blink_both on frame
\* 3 and none on frames 4..17; and whatever the face shows on frames 4..17,
\* none is returned on each of them.
C1_HeldClosed ==
    (result # <<>> /\ BothClosedSoFar /\ frame_count \in 1..17)
        => result[1].gesture = IF frame_count = 3 THEN "blink_both" ELSE "none"

C1_Suppressed ==
    [][(/\ hist.emitted = "blink_both"
        /\ frame_count \in 3..16
        /\ hist.since = frame_count - 3
        /\ FrameStep)
            => result'[1].gesture = "none"]_vars

C1_BlinkBothOnThirdFrame == []C1_HeldClosed /\ C1_Suppressed

\* C1 witness: the 17th frame with both eyes still closed returned none.
C1_Witness ==
    /\ result # <<>>
    /\ BothClosedSoFar
    /\ frame_count = 17
    /\ hist.emitted = "blink_both"
    /\ hist.since = 14
    /\ result[1].gesture = "none"

\* C2 (as claimed): blink_left is not returned on a frame of a run of
\* left-eye-closed frames in which the right eye was classified closed on
\* some frame.
C2_Claimed ==
    (pc = "print" /\ result[1].gesture = "blink_left")
        => ~hist.run_right_closed

\* C2 (amended): blink_left is not returned on a frame on which the right eye
\* is classified closed; it is returned only when the right-eye run length
\* is 0 on that frame.
C2_NoWinkWhileOtherClosed ==
    (pc = "print" /\ result[1].gesture = "blink_left")
        => /\ ~RightClosed(frame.landmarks)
           /\ right_eye_closed_frames = 0

\* C2 witness: blink_left returned in a run in which the right eye had been
\* closed on an earlier frame.
C2_Witness ==
    /\ pc = "print"
    /\ result[1].gesture = "blink_left"
    /\ hist.run_right_closed
    /\ ~RightClosed(frame.landmarks)

\* C3: from the fresh state, with only the left eye closed on each of 4
\* face-detected frames and the right eye open on all of them, detect_gesture
\* returns none on frames 1..3 and blink_left on frame 4; with left and
\* right exchanged it returns blink_right on frame 4.
C3_WinkOnFourthFrame ==
    /\ (/\ result # <<>>
        /\ frame_count \in 1..4
        /\ left_eye_closed_frames = frame_count
        /\ right_eye_closed_frames = 0
        /\ ~hist.run_right_closed)
            => result[1].gesture = IF frame_count = 4 THEN "blink_left" ELSE "none"
    /\ (/\ result # <<>>
        /\ frame_count \in 1..4
        /\ right_eye_closed_frames = frame_count
        /\ left_eye_closed_frames = 0
        /\ ~hist.run_left_closed)
            => result[1].gesture = IF frame_count = 4 THEN "blink_right" ELSE "none"

\* C3 witness: the 4th frame of a left-only run returned blink_left.
C3_Witness ==
    /\ result # <<>>
    /\ frame_count = 4
    /\ left_eye_closed_frames = 4
    /\ ~hist.run_right_closed
    /\ result[1].gesture = "blink_left"

\* no label other than "none" was returned before the frame read last
FirstLabelAtMost == hist.emitted = "none" \/ hist.since = 0

\* C4: from the fresh state, with the mouth open and both eyes open on each
\* of 6 face-detected frames, detect_gesture returns none on frames 1..5 and
\* mouth_open on frame 6, and none on each of frames 7..26 whatever the face
\* shows on them.  (Under SpecHeld the frames before the first label all
\* show the face the last frame shows.)
C4_HeldOpen ==
    (/\ result # <<>>
     /\ frame_count \in 1..6
     /\ FirstLabelAtMost
     /\ mouth_open_frames = frame_count
     /\ ~LeftClosed(frame.landmarks)
     /\ ~RightClosed(frame.landmarks))
        => result[1].gesture = IF frame_count = 6 THEN "mouth_open" ELSE "none"

C4_Suppressed ==
    [][(/\ hist.emitted = "mouth_open"
        /\ frame_count \in 6..25
        /\ hist.since = frame_count - 6
        /\ FrameStep)
            => result'[1].gesture = "none"]_vars

C4_MouthOpenOnSixthFrame == []C4_HeldOpen /\ C4_Suppressed

\* C4 witness: the 20th frame after mouth_open on frame 6 returned none
\* although both eyes had then been closed for 3 frames or more.
C4_Witness ==
    /\ result # <<>>
    /\ frame_count = 26
    /\ hist.emitted = "mouth_open"
    /\ hist.since = 20
    /\ left_eye_closed_frames > 2
    /\ right_eye_closed_frames > 2
    /\ result[1].gesture = "none"

\* C5: a frame returns a label other than none only if no label was
\* returned before, or 15 face-detected frames (20 after mouth_open) have
\* returned none since the last one; so any 16 consecutive face-detected
\* frames hold at most one label other than none.
C5_OneLabelPerWindow ==
    [][(FrameStep /\ result' # <<>> /\ result'[1].gesture # "none")
        => \/ hist.emitted = "none"
           \/ hist.since >= IF hist.emitted = "mouth_open" THEN MouthCooldown
                            ELSE BlinkCooldown]_vars

\* C5 witness: a second label on the 16th frame after the first.
C5_Witness ==
    /\ result # <<>>
    /\ frame_count = 19
    /\ hist.since = 0
    /\ result[1].gesture = "blink_both"
    /\ gesture_cooldown = BlinkCooldown

\* C6: a frame with no face detected returns none and leaves the three run
\* lengths, the cooldown and last_gesture as they were.
C6_NoFaceLeavesGestureState ==
    [][(FrameStep /\ Undetected(frame'))
        => /\ UNCHANGED gesture_vars
           /\ result' # <<>> => /\ result'[1].gesture = "none"
                                /\ ~result'[1].face_detected]_vars

\* C6 witness: a frame without a face read while the cooldown was running
\* and a run of closed-eye frames was in progress.
C6_Witness ==
    /\ pc = "print"
    /\ frame = NoFace
    /\ frame_count = 4
    /\ gesture_cooldown = BlinkCooldown
    /\ left_eye_closed_frames = 3

\* C7: a frame with no face detected leaves smooth_x and smooth_y as they
\* were, for each smoothing factor.
C7_NoFaceLeavesSmoothedPoint ==
    [][(FrameStep /\ Undetected(frame'))
        => smooth_x' = smooth_x /\ smooth_y' = smooth_y]_vars

\* C7 witness: a frame without a face read when the smoothed point was away
\* from the centre.
C7_Witness ==
    /\ pc = "print"
    /\ frame = NoFace
    /\ smooth_x # RHalf
    /\ smooth_y # RHalf
    /\ smoothing_factor = <<3, 10>>

\* C8 (as claimed): the x, y of every record is the current smoothed point,
\* and the record of a frame with no face detected has face_detected false
\* and gesture none.
C8_Claimed ==
    pc = "print"
        => /\ result[1].x = smooth_x
           /\ result[1].y = smooth_y
           /\ Undetected(frame) => /\ ~result[1].face_detected
                                   /\ result[1].gesture = "none"

\* C9: with smoothing factor 1/2, 10 frames with no face and then a frame
\* with the raw point (0.8, 0.2) give 11 records: the first 10 have
\* face_detected false and x = y = 1/2, the 11th face_detected true,
\* x = 13/20 and y = 7/20.
C9_Scenario ==
    /\ (result # <<>> /\ hist.faces = 0 /\ frame_count \in 1..10)
        => /\ ~result[1].face_detected
           /\ result[1].x = RHalf
           /\ result[1].y = RHalf
    /\ (result # <<>> /\ hist.faces = 1 /\ frame_count = 11 /\ frame # NoFace)
        => /\ result[1].face_detected
           /\ result[1].x = <<13, 20>>
           /\ result[1].y = <<7, 20>>
    /\ (pc = "loop" /\ frame_count \in 1..11) => Len(Records) = frame_count

\* C9 witness: the 11th record written, the first with a face.
C9_Witness ==
    /\ pc = "loop"
    /\ frame_count = 11
    /\ hist.faces = 1
    /\ frame = Neutral(P1)
    /\ Len(Records) = 11
    /\ result[1].face_detected

\* C10 (as claimed): the records are written in frame order, one for every
\* frame read, each before the next frame is read.
C10_Claimed ==
    /\ \A i \in 1..Len(Records) : Records[i].frame = i
    /\ pc = "loop" => Len(Records) = frame_count
    /\ pc = "exit" /\ cap = "released" => Len(Records) = frame_count

\* C10 (amended): the records are written in frame order, one for every
\* frame read, each before the next frame is read, except that the frame read
\* last has no record when the run ends while it is in flight (the quit key
\* of the preview window, an interrupt before the record is written, or an
\* exception raised while the frame is processed).
C10_RecordsInFrameOrder ==
    /\ \A i \in 1..Len(Records) : Records[i].frame = i
    /\ pc = "loop" => Len(Records) = frame_count
    /\ pc = "print" => Len(Records) = frame_count - 1
    /\ Len(Records) \in {frame_count - 1, frame_count}
    /\ (pc = "exit" /\ cap = "released" /\ Len(Records) # frame_count)
        => \/ show_preview /\ result = <<>>
           \/ result # <<>>
           \/ hist.ended = "exception"

\* C10 witness: a run that ended with 2 frames read and 1 record written.
C10_Witness ==
    /\ pc = "exit"
    /\ frame_count = 2
    /\ Len(Records) = 1
    /\ Records[1].frame = 1

IsError(line) == line.kind = "error"

\* the lines written since the run ended
LinesSinceEnd == SubSeq(out, hist.end_lines + 1, Len(out))

\* C11 (as claimed): after an interrupt at any point of the run, setup
\* included, no TrackingRecord is written, and the process exits with the
\* camera released and {"status": "stopped"} as the last line written.
C11_Claimed ==
    hist.ended \in {"interrupt", "setup_interrupt"}
        => /\ \A i \in 1..Len(LinesSinceEnd) : LinesSinceEnd[i].kind # "record"
           /\ pc = "exit" => /\ cap = "released"
                             /\ LinesSinceEnd = <<Line("stopped")>>

\* C12: after a failed read no further frame is read (the read is not tried
\* again), every frame read before it has its record and the failed read has
\* none, no error line is written, and the run ends with the camera released
\* and {"status": "stopped"} as the one line written after the failure.
C12_ReadFailureEndsRun ==
    hist.ended = "read_failure"
        => /\ pc \in {"finally", "stopped", "exit"}
           /\ frame_count = hist.end_frames
           /\ Len(Records) = frame_count
           /\ SelectSeq(out, IsError) = <<>>
           /\ pc # "exit" => LinesSinceEnd = <<>>
           /\ pc = "exit" => /\ cap = "released"
                             /\ LinesSinceEnd = <<Line("stopped")>>

\* C12 witness: a run ended by a failed read after 2 frames, 2 records
\* written and then the stopped line.
C12_Witness ==
    /\ hist.ended = "read_failure"
    /\ pc = "exit"
    /\ frame_count = 2
    /\ Len(Records) = 2
    /\ Len(out) = 4
    /\ out[4].kind = "stopped"

\* C13 (as claimed): a run whose setup failed writes exactly one line, an
\* error line.
C13_Claimed ==
    hist.ended = "setup_failure"
        => /\ Len(SelectSeq(out, IsError)) = 1
           /\ Len(out) = 1

\* C14 (as claimed): a run whose setup failed exits with a status other
\* than 0.
C14_Claimed ==
    (hist.ended = "setup_failure" /\ pc = "exit")
        => /\ exit_status # <<>>
           /\ exit_status # <<0>>

RSub(p, q) == RAdd(p, <<-q[1], q[2]>>)

RAbs(p) == <<Abs(p[1]), p[2]>>

RECURSIVE RPow(_, _)
RPow(p, n) == IF n = 0 THEN ROne ELSE RMul(p, RPow(p, n - 1))

\* p <= q, compared over the least common denominator
RNoMore(p, q) ==
    LET g == Gcd(p[2], q[2])
    IN  p[1] * (q[2] \div g) <= q[1] * (p[2] \div g)

\* p is in [0, 1]
InUnit(p) == p[1] >= 0 /\ p[1] <= p[2]

\* the smoothed coordinate s is off the raw coordinate r by the offset of
\* the coordinate b times smoothing_factor ^ n
Decayed(s, r, b, n) == RSub(s, r) = RMul(RSub(b, r), RPow(smoothing_factor, n))

\* C15: with one raw point P on each of n face-detected frames, whatever
\* the smoothed point was before them and for each smoothing factor in
\* [0, 1), each coordinate of the smoothed point is off P by exactly the
\* offset before the n frames times smoothing_factor ^ n; and a frame with
\* the raw point of the frame before never increases the offset.
C15_Decay ==
    hist.held > 0
        => /\ Decayed(smooth_x, hist.raw[1], hist.base[1], hist.held)
           /\ Decayed(smooth_y, hist.raw[2], hist.base[2], hist.held)

C15_NoIncrease ==
    [][(FrameStep /\ hist'.held > 1)
        => /\ RNoMore(RAbs(RSub(smooth_x', hist.raw[1])),
                      RAbs(RSub(smooth_x, hist.raw[1])))
           /\ RNoMore(RAbs(RSub(smooth_y', hist.raw[2])),
                      RAbs(RSub(smooth_y, hist.raw[2])))]_vars

C16_InUnitSquare ==
    /\ InUnit(smooth_x)
    /\ InUnit(smooth_y)
    /\ result # <<>> => InUnit(result[1].x) /\ InUnit(result[1].y)

\* C16 witness: a record on the edge of the unit square, from a raw point at
\* the corner with smoothing factor 0.
C16_Witness ==
    /\ pc = "print"
    /\ smoothing_factor = RZero
    /\ frame = Neutral(Corner)
    /\ result[1].x = RZero
    /\ result[1].y = ROne

\* the sum of coordinates, in units of 1/Unit, over n points as a rational
Average(sum, n) == Rat(sum, n * Unit)

\* C17: for a present LandmarkSet get_tracking_point returns, in nose mode
\* the nose tip, in head mode the mean of forehead and chin, in eyes mode
\* the mean of the two eye centres (each the mean of the eye's inner and
\* outer corner, so the mean of the four corners), in mouth mode the mean x
\* of the mouth corners and the mean y of the lips; for an absent
\* LandmarkSet it returns no point (the frame counts as having no face and
\* leaves the smoothed point); and the frame changes neither the mode nor
\* any other setting of the tracker.
C17_Point ==
    (frame_count > 0 /\ frame.landmarks # <<>>)
        => LET lm == frame.landmarks[1]
           IN  hist.raw =
                 CASE mode = "nose" ->
                        <<Average(lm[NOSE_TIP].x, 1), Average(lm[NOSE_TIP].y, 1)>>
                   [] mode = "head" ->
                        <<Average(lm[FOREHEAD].x + lm[CHIN].x, 2),
                          Average(lm[FOREHEAD].y + lm[CHIN].y, 2)>>
                   [] mode = "eyes" ->
                        <<Average(lm[LEFT_EYE_INNER].x + lm[LEFT_EYE_OUTER].x
                            + lm[RIGHT_EYE_INNER].x + lm[RIGHT_EYE_OUTER].x, 4),
                          Average(lm[LEFT_EYE_INNER].y + lm[LEFT_EYE_OUTER].y
                            + lm[RIGHT_EYE_INNER].y + lm[RIGHT_EYE_OUTER].y, 4)>>
                   [] mode = "mouth" ->
                        <<Average(lm[LEFT_MOUTH].x + lm[RIGHT_MOUTH].x, 2),
                          Average(lm[UPPER_LIP].y + lm[LOWER_LIP].y, 2)>>

C17_NoPoint ==
    (result # <<>> /\ frame.landmarks = <<>>) => ~result[1].face_detected

C17_NoSideEffect ==
    [][FrameStep
        => /\ UNCHANGED <<cap, config_vars, last_gesture, out, exit_status>>
           /\ frame'.landmarks = <<>>
                => /\ hist'.raw = hist.raw
                   /\ smooth_x' = smooth_x
                   /\ smooth_y' = smooth_y]_vars

C17_TrackingPointByMode == [](C17_Point /\ C17_NoPoint) /\ C17_NoSideEffect

\* C17 witness: in mouth mode, a face with the mouth open gave the point
\* (0.5, 0.71), and a frame without a face after it gave none.
C17_Witness ==
    /\ mode = "mouth"
    /\ hist.raw = <<RHalf, <<71, 100>>>>
    /\ hist.faces = 1
    /\ frame_count = 2
    /\ frame = NoFace
    /\ ~result[1].face_detected

\* a step of process_frame that read a frame with a face detected in it
FaceStep == FrameStep /\ ~Undetected(frame') /\ result' # <<>>

\* C18: on a face-detected frame that starts with the cooldown above 0 the
\* cooldown goes down by exactly 1 and none is returned, whatever the run
\* lengths; a label other than none is returned only by a frame that starts
\* with the cooldown at 0; and a frame that starts with the cooldown at 0 and
\* returns none leaves it at 0.
C18_CooldownSuppresses ==
    [][FaceStep
        => /\ gesture_cooldown > 0
                => /\ gesture_cooldown' = gesture_cooldown - 1
                   /\ result'[1].gesture = "none"
           /\ result'[1].gesture # "none" => gesture_cooldown = 0
           /\ (gesture_cooldown = 0 /\ result'[1].gesture = "none")
                => gesture_cooldown' = 0]_vars

\* C18 witness: the 8th frame after blink_both returned none with both eyes
\* closed for 11 frames and the cooldown down to 7.
C18_Witness ==
    /\ result # <<>>
    /\ frame_count = 11
    /\ hist.emitted = "blink_both"
    /\ hist.since = 8
    /\ gesture_cooldown = 7
    /\ left_eye_closed_frames = 11
    /\ right_eye_closed_frames = 11
    /\ result[1].gesture = "none"

\* C19: a face-detected frame that starts with the cooldown at 0 returns
\* the label, and leaves the cooldown, of the first rule that matches the
\* updated run lengths: left > 2 and right > 2, blink_both and 15; left > 3
\* and right = 0, blink_left and 15; right > 3 and left = 0, blink_right and
\* 15; mouth > 5, mouth_open and 20; else none and 0.  So blink_both is
\* returned when its rule and the rule of mouth_open both match.
C19_PriorityList ==
    [][(FaceStep /\ gesture_cooldown = 0)
        => LET l == left_eye_closed_frames'
               r == right_eye_closed_frames'
               m == mouth_open_frames'
           IN  <<result'[1].gesture, gesture_cooldown'>> =
                 IF l > 2 /\ r > 2 THEN <<"blink_both", 15>>
                 ELSE IF l > 3 /\ r = 0 THEN <<"blink_left", 15>>
                 ELSE IF r > 3 /\ l = 0 THEN <<"blink_right", 15>>
                 ELSE IF m > 5 THEN <<"mouth_open", 20>>
                 ELSE <<"none", 0>>]_vars

\* C19 witness: blink_both returned on a frame on which the mouth had been
\* open for more than 5 frames as well.
C19_Witness ==
    /\ result # <<>>
    /\ result[1].gesture = "blink_both"
    /\ gesture_cooldown = BlinkCooldown
    /\ mouth_open_frames > 5
    /\ left_eye_closed_frames > 2
    /\ right_eye_closed_frames > 2

\* C20: on every face-detected frame, frames that start with the cooldown
\* above 0 included, each run length becomes its value before the frame plus
\* 1 if its condition holds in the frame, and 0 if it does not.
C20_CountersAlwaysUpdated ==
    [][FaceStep
        => LET lms == frame'.landmarks
           IN  /\ left_eye_closed_frames' =
                    IF LeftClosed(lms) THEN left_eye_closed_frames + 1 ELSE 0
               /\ right_eye_closed_frames' =
                    IF RightClosed(lms) THEN right_eye_closed_frames + 1 ELSE 0
               /\ mouth_open_frames' =
                    IF MouthOpened(lms) THEN mouth_open_frames + 1 ELSE 0]_vars

\* C20 witness: two frames into the cooldown of mouth_open, the left-eye
\* run length has gone up to 2 and the mouth run length back to 0.
C20_Witness ==
    /\ result # <<>>
    /\ frame_count = 8
    /\ hist.emitted = "mouth_open"
    /\ gesture_cooldown = 18
    /\ left_eye_closed_frames = 2
    /\ right_eye_closed_frames = 0
    /\ mouth_open_frames = 0

\* the corners a and b are less than 0.001 apart
Collapsed(a, b) == DistSq(a, b) < (Unit * Unit) \div 1000000

\* C21: a frame in which an eye's corners are less than 0.001 apart resets
\* that eye's run length to 0, and a frame in which the mouth's corners are
\* less than 0.001 apart resets the mouth's run length to 0; the frame
\* returns its record and the run goes on to write it.
C21_DegenerateResets ==
    (pc = "print" /\ frame.landmarks # <<>>)
        => LET lm == frame.landmarks[1]
           IN  /\ result # <<>>
               /\ result[1].face_detected
               /\ Collapsed(lm[LEFT_EYE_INNER], lm[LEFT_EYE_OUTER])
                    => left_eye_closed_frames = 0
               /\ Collapsed(lm[RIGHT_EYE_INNER], lm[RIGHT_EYE_OUTER])
                    => right_eye_closed_frames = 0
               /\ Collapsed(lm[LEFT_MOUTH], lm[RIGHT_MOUTH])
                    => mouth_open_frames = 0

\* C21 witness: a third frame with the left eye and the mouth degenerate
\* ended a run of 2 closed-eye frames: no blink_both, the right-eye run at 3.
C21_Witness ==
    /\ pc = "print"
    /\ frame_count = 3
    /\ frame = Frame(<<Face(EyeDegenerate, EyeShut, MouthDegenerate, Centre)>>,
                     <<>>)
    /\ left_eye_closed_frames = 0
    /\ right_eye_closed_frames = 3
    /\ mouth_open_frames = 0
    /\ result[1].gesture = "none"

\* C22 (as claimed): after a frame that returned a label other than none,
\* last_gesture is that label.
C22_Claimed ==
    (pc = "print" /\ result[1].gesture # "none")
        => last_gesture = result[1].gesture

\* C23: frame_count goes up by exactly 1 on every frame read, with or
\* without a face, is left alone by a failed read and by every other step,
\* and never goes down; the fps of the record of frame n times the elapsed
\* time is n, and the fps is 0 when the elapsed time is 0.
C23_Fps ==
    pc = "print"
        => /\ elapsed > 0 => RMul(result[1].fps, <<elapsed, 1>>) = <<frame_count, 1>>
           /\ elapsed = 0 => result[1].fps = RZero
           /\ Len(Records) = frame_count - 1

C23_Count ==
    [][/\ (pc = "loop" /\ pc' = "print") => frame_count' = frame_count + 1
       /\ frame' # frame => frame_count' = frame_count + 1
       /\ (hist.ended = "no" /\ hist'.ended = "read_failure")
            => frame_count' = frame_count
       /\ pc # "loop" => frame_count' = frame_count
       /\ frame_count' >= frame_count]_vars

C23_FrameCountAndFps == []C23_Fps /\ C23_Count

\* C23 witness: the record of frame 3, a frame without a face, with 1 tick
\* elapsed and fps 3.
C23_Witness ==
    /\ pc = "print"
    /\ frame_count = 3
    /\ frame = NoFace
    /\ elapsed = 1
    /\ result[1].fps = <<3, 1>>

IsStarted(line) == line.kind = "started"

IsStopped(line) == line.kind = "stopped"

C25_HeldGestureRefires ==
    /\ (result # <<>> /\ frame_count > 0 /\ BothClosedSoFar)
        => result[1].gesture =
             IF frame_count % 16 = 3 THEN "blink_both" ELSE "none"
    /\ (/\ result # <<>>
        /\ frame_count > 0
        /\ mouth_open_frames = frame_count
        /\ left_eye_closed_frames = 0
        /\ right_eye_closed_frames = 0)
        => result[1].gesture =
             IF frame_count >= 6 /\ (frame_count - 6) % 21 = 0
             THEN "mouth_open" ELSE "none"

\* C25 witness: the third blink_both of a run with both eyes held closed,
\* on frame 35.
C25_Witness ==
    /\ result # <<>>
    /\ frame_count = 35
    /\ BothClosedSoFar
    /\ result[1].gesture = "blink_both"
    /\ gesture_cooldown = BlinkCooldown

\* C26: with both eyes closed on every face-detected frame and frames
\* without a face anywhere among them, the run lengths are the number of
\* face-detected frames, blink_both is returned on the 3rd, 19th, ...
\* face-detected frame however many frames without a face lie before it,
\* and the cooldown is 15 less the face-detected frames since the
\* blink_both: frames without a face count for nothing.
C26_GapsDoNotCount ==
    (result # <<>> /\ frame_count > 0)
        => /\ left_eye_closed_frames = hist.faces
           /\ right_eye_closed_frames = hist.faces
           /\ gesture_cooldown =
                IF hist.faces < 3 THEN 0 ELSE 15 - ((hist.faces - 3) % 16)
           /\ result[1].gesture =
                IF frame # NoFace /\ hist.faces % 16 = 3 THEN "blink_both"
                ELSE "none"

\* C26 witness: the second blink_both, on the 19th face-detected frame, in a
\* run with 5 frames without a face before it.
C26_Witness ==
    /\ result # <<>>
    /\ frame_count = 24
    /\ hist.faces = 19
    /\ frame = BothShut
    /\ result[1].gesture = "blink_both"

Blinks == {"blink_both", "blink_left", "blink_right"}

\* the cooldown is in 0..20 and no run length is negative
CooldownInRange ==
    /\ gesture_cooldown \in 0..20
    /\ left_eye_closed_frames >= 0
    /\ right_eye_closed_frames >= 0
    /\ mouth_open_frames >= 0

\* C27 (as claimed): the cooldown is in 0..20, no run length is negative,
\* and the cooldown has the value 15 only after a frame that returned a
\* blink and the value 20 only after a frame that returned mouth_open.
C27_Claimed ==
    /\ CooldownInRange
    /\ (result # <<>> /\ gesture_cooldown = 15) => result[1].gesture \in Blinks
    /\ (result # <<>> /\ gesture_cooldown = 20)
        => result[1].gesture = "mouth_open"

\* C27 (amended): the cooldown is in 0..20 and no run length is negative;
\* the cooldown changes on face-detected frames only; it goes up only on a
\* frame that returns a label other than none, to 15 for a blink and to 20
\* for mouth_open; and on every other frame that changes it, it goes down
\* by exactly 1 (so it is 15 again on the 5th frame after a mouth_open, a
\* frame that returns none).
C27_CooldownSteps ==
    [][/\ gesture_cooldown' # gesture_cooldown => FaceStep
       /\ FaceStep
            => /\ result'[1].gesture \in Blinks => gesture_cooldown' = 15
               /\ result'[1].gesture = "mouth_open" => gesture_cooldown' = 20
               /\ gesture_cooldown' > gesture_cooldown
                    => result'[1].gesture # "none"
               /\ gesture_cooldown' < gesture_cooldown
                    => /\ gesture_cooldown' = gesture_cooldown - 1
                       /\ result'[1].gesture = "none"]_vars

C27_CooldownRange == []CooldownInRange /\ C27_CooldownSteps

\* C27 witness: the 5th frame after mouth_open returned none and left the
\* cooldown at 15.
C27_Witness ==
    /\ result # <<>>
    /\ frame_count = 11
    /\ hist.emitted = "mouth_open"
    /\ hist.since = 5
    /\ gesture_cooldown = 15
    /\ result[1].gesture = "none"

\* C28: in a run without a landmarker every record has gesture none, the
\* run lengths and the cooldown stay 0, a frame has face_detected true
\* exactly when the Haar cascade found a box in it, and such a frame moves
\* the smoothed point towards the centre of the first box,
\* ((x + w/2) / width, (y + h/2) / height), and reports it.
C28_NoGestures ==
    /\ left_eye_closed_frames = 0
    /\ right_eye_closed_frames = 0
    /\ mouth_open_frames = 0
    /\ gesture_cooldown = 0
    /\ result # <<>>
        => /\ result[1].gesture = "none"
           /\ result[1].face_detected <=> frame.faces # <<>>

C28_BoxCentreSmoothed ==
    [][(FrameStep /\ frame'.faces # <<>>)
        => LET b == frame'.faces[1]
               cx == Rat(2 * b[1] + b[3], 2 * 640)
               cy == Rat(2 * b[2] + b[4], 2 * 480)
               keep == smoothing_factor
               take == Rat(keep[2] - keep[1], keep[2])
           IN  /\ smooth_x' = RAdd(RMul(smooth_x, keep), RMul(cx, take))
               /\ smooth_y' = RAdd(RMul(smooth_y, keep), RMul(cy, take))
               /\ result'[1].x = smooth_x'
               /\ result'[1].y = smooth_y']_vars

C28_FallbackDetector == []C28_NoGestures /\ C28_BoxCentreSmoothed

\* C28 witness: 4 frames of a face with both eyes shut, a box found in each,
\* the last in the top left corner: face detected, the smoothed point off
\* the centre, no run length counted.
C28_Witness ==
    /\ ~landmarker
    /\ pc = "print"
    /\ frame_count = 4
    /\ hist.faces = 4
    /\ frame = Frame(BothShut.landmarks, <<BoxTopLeft>>)
    /\ result[1].face_detected
    /\ result[1].gesture = "none"
    /\ smooth_x # RHalf
    /\ left_eye_closed_frames = 0

====
